---------------------------- MODULE Spec2Model ----------------------------
(***************************************************************************)
(* Model of src/src/bloom.rs: BloomFilter<K>, a fixed-size bit vector with *)
(* k hash rounds per key, hashed with FxHasher (64-bit usize).             *)
(*                                                                         *)
(* A 64-bit word is a tuple of 8 bytes, least significant first, so that   *)
(* the hasher's rotate / xor / wrapping multiply keep their width.         *)
(* A key of type &str / String is the tuple of its UTF-8 bytes.            *)
(***************************************************************************)
EXTENDS Integers, Sequences, FiniteSets

(***************************************************************************)
(* Bounds of the model.                                                    *)
(***************************************************************************)
\* n_bits passed to new() ranges over 0..MaxNBits
MaxNBits == 10
\* k passed to new() ranges over 0..MaxK
MaxK == 2
\* the keys format!("{i}") for i in 0..=MaxDigit, besides "hello" and "world"
MaxDigit == 2

(***************************************************************************)
(* Keys (the byte strings the tests insert).                               *)
(***************************************************************************)
\* "hello"
Hello == <<104, 101, 108, 108, 111>>
\* "world"
World == <<119, 111, 114, 108, 100>>
\* format!("{i}") for a single digit i
Digit(i) == <<48 + i>>

RECURSIVE Digits(_)
\* <<"0", "1", ..., format!("{i}")>>
Digits(i) == IF i < 0 THEN <<>> ELSE Append(Digits(i - 1), Digit(i))

KeyList == <<Hello, World>> \o Digits(MaxDigit)

Keys == {KeyList[i] : i \in DOMAIN KeyList}

(***************************************************************************)
(* 64-bit words and FxHasher.                                              *)
(***************************************************************************)
Zero64 == <<0, 0, 0, 0, 0, 0, 0, 0>>

\* The element of a one-element set: The({e(v) : v \in {x}}) is e(x), with
\* x evaluated once and bound to v.
The(S) == CHOOSE r \in S : TRUE

\* 0x517cc1b727220a95, least significant byte first
SEED == <<149, 10, 34, 39, 183, 193, 124, 81>>

\* FxHasher::default(): the hash word starts at 0
FxHasher_default == Zero64

\* byte i of x rotated left by 5 bits
RotByte(x, i) == ((x[i] * 32) % 256) + (x[((i + 6) % 8) + 1] \div 8)

\* u64::rotate_left(5)
rotate_left(x) ==
    The({ <<RotByte(v, 1), RotByte(v, 2), RotByte(v, 3), RotByte(v, 4),
            RotByte(v, 5), RotByte(v, 6), RotByte(v, 7), RotByte(v, 8)>>
          : v \in {x} })

RECURSIVE XorBits(_, _, _)
\* a ^ b on the low n bits of two bytes
XorBits(a, b, n) ==
    IF n = 0 THEN 0
    ELSE IF a = 0 THEN b
    ELSE IF b = 0 THEN a
    ELSE ((a + b) % 2) + 2 * XorBits(a \div 2, b \div 2, n - 1)

\* u64 ^ u64
bitxor(x, y) ==
    The({ <<XorBits(v[1], w[1], 8), XorBits(v[2], w[2], 8),
            XorBits(v[3], w[3], 8), XorBits(v[4], w[4], 8),
            XorBits(v[5], w[5], 8), XorBits(v[6], w[6], 8),
            XorBits(v[7], w[7], 8), XorBits(v[8], w[8], 8)>>
          : v \in {x}, w \in {y} })

RECURSIVE MulColumn(_, _, _, _)
\* the sum of the byte products x[i] * y[j] with i + j = col + 1, i <= upto
MulColumn(x, y, col, upto) ==
    IF upto = 0 THEN 0
    ELSE x[upto] * y[col + 1 - upto] + MulColumn(x, y, col, upto - 1)

RECURSIVE MulFrom(_, _, _, _)
\* bytes col..8 of x * y, given the carry into column col
MulFrom(x, y, col, carry) ==
    IF col > 8 THEN <<>>
    ELSE LET s == MulColumn(x, y, col, col) + carry
         IN  <<s % 256>> \o MulFrom(x, y, col + 1, s \div 256)

\* u64::wrapping_mul: the product modulo 2^64
wrapping_mul(x, y) == The({ MulFrom(v, w, 1, 0) : v \in {x}, w \in {y} })

\* HashWord::hash_word: hash = (hash.rotate_left(5) ^ word) * SEED
hash_word(hasher, word) == wrapping_mul(bitxor(rotate_left(hasher), word), SEED)

\* bytes[from..from+n] read as a little-endian integer, widened to 64 bits
read_le(bytes, from, n) ==
    SubSeq(bytes, from, from + n - 1) \o SubSeq(Zero64, n + 1, 8)

RECURSIVE write_from(_, _, _)
\* FxHasher::write on bytes[from..]: 8-byte words, then one 4-byte word,
\* then single bytes
write_from(hasher, bytes, from) ==
    LET left == Len(bytes) - from + 1
    IN  IF left >= 8
          THEN write_from(hash_word(hasher, read_le(bytes, from, 8)), bytes, from + 8)
        ELSE IF left >= 4
          THEN write_from(hash_word(hasher, read_le(bytes, from, 4)), bytes, from + 4)
        ELSE IF left >= 1
          THEN write_from(hash_word(hasher, read_le(bytes, from, 1)), bytes, from + 1)
        ELSE hasher

\* Hasher::write
write(hasher, bytes) == write_from(hasher, bytes, 1)

\* Hasher::write_u8
write_u8(hasher, b) == hash_word(hasher, read_le(<<b>>, 1, 1))

\* <str as Hash>::hash: the bytes, then the 0xff terminator
str_hash(key, hasher) == write_u8(write(hasher, key), 255)

RECURSIVE HashChain(_, _, _)
\* the first n steps of feeding key again and again to one hasher
HashChain(key, hasher, n) ==
    IF n = 0 THEN <<>>
    ELSE The({ <<[key |-> key, from |-> g, to |-> h]>> \o HashChain(key, h, n - 1)
               : g \in {hasher}, h \in {str_hash(key, hasher)} })

RECURSIVE HashChains(_)
HashChains(i) ==
    IF i = 0 THEN <<>>
    ELSE HashChains(i - 1) \o HashChain(KeyList[i], FxHasher_default, MaxK)

\* str_hash tabulated once for the hasher states a fresh hasher goes through
HashMemo == HashChains(Len(KeyList))

\* key.hash(hasher): str_hash, looked up in HashMemo where it is tabulated
hash(key, hasher) ==
    The({ LET hits == {i \in DOMAIN HashMemo :
                          HashMemo[i].key = key /\ HashMemo[i].from = h}
          IN  IF hits = {} THEN str_hash(key, h)
              ELSE HashMemo[CHOOSE i \in hits : TRUE].to
          : h \in {hasher} })

RECURSIVE RemFrom(_, _, _, _)
\* (acc * 256^i + the low i bytes of x) % n
RemFrom(x, n, i, acc) ==
    IF i = 0 THEN acc ELSE RemFrom(x, n, i - 1, (acc * 256 + x[i]) % n)

\* hasher.finish() as usize % n, for n > 0
rem(x, n) == The({ RemFrom(v, n, 8, 0) : v \in {x} })

(***************************************************************************)
(* BloomFilter.                                                            *)
(***************************************************************************)
\* BitVec::from_elem(n, false): bits 0..n-1, all cleared
BitVec_from_elem(n, x) == [i \in 0..(n - 1) |-> x]

\* BitVec::len
BitVec_len(inner) == Cardinality(DOMAIN inner)

\* BloomFilter::new
new(n_bits, k) ==
    [inner |-> BitVec_from_elem(n_bits, FALSE), n_bits |-> n_bits, k |-> k]

\* hash_index reducing modulo n_bits + 1 instead of n_bits
hash_index_off_by_one(self, key, hasher) ==
    The({ [status |-> "ok", hasher |-> h, index |-> rem(h, self.n_bits + 1)]
          : h \in {hash(key, hasher)} })

\* BloomFilter::hash_index: feed the key to the hasher, reduce modulo n_bits.
\* The remainder panics when n_bits is 0.
hash_index(self, key, hasher) ==
    The({ IF self.n_bits = 0
            THEN [status |-> "rem_by_zero", hasher |-> h, index |-> 0]
            ELSE [status |-> "ok", hasher |-> h, index |-> rem(h, self.n_bits)]
          : h \in {hash(key, hasher)} })

\* rounds `round`..k-1 of insert's loop; `seen` are the indices used so far.
\* BitVec::set panics on an index that is not below the length.
RECURSIVE insert_loop(_, _, _, _, _)
insert_loop(self, key, hasher, round, seen) ==
    IF round >= self.k
      THEN [self |-> self, status |-> "ok", accessed |-> seen]
      ELSE The({
             IF r.status # "ok"
               THEN [self |-> self, status |-> r.status, accessed |-> seen]
             ELSE IF r.index >= BitVec_len(self.inner)
               THEN [self |-> self, status |-> "index_out_of_bounds",
                     accessed |-> Append(seen, r.index)]
             ELSE insert_loop([self EXCEPT !.inner[r.index] = TRUE], key,
                         r.hasher, round + 1, Append(seen, r.index))
             : r \in {hash_index(self, key, hasher)} })

\* insert whose loop runs over 1..k instead of 0..k
insert_skip_round(self, key) == insert_loop(self, key, FxHasher_default, 1, <<>>)

RECURSIVE insert_toggle_loop(_, _, _, _, _)
insert_toggle_loop(self, key, hasher, round, seen) ==
    IF round >= self.k
      THEN [self |-> self, status |-> "ok", accessed |-> seen]
      ELSE The({
             IF r.status # "ok"
               THEN [self |-> self, status |-> r.status, accessed |-> seen]
             ELSE IF r.index >= BitVec_len(self.inner)
               THEN [self |-> self, status |-> "index_out_of_bounds",
                     accessed |-> Append(seen, r.index)]
             ELSE insert_toggle_loop([self EXCEPT !.inner[r.index] = ~self.inner[r.index]], key,
                         r.hasher, round + 1, Append(seen, r.index))
             : r \in {hash_index(self, key, hasher)} })

\* insert that flips each derived bit instead of setting it
insert_toggle(self, key) == insert_toggle_loop(self, key, FxHasher_default, 0, <<>>)

\* BloomFilter::insert
insert(self, key) == insert_loop(self, key, FxHasher_default, 0, <<>>)

\* rounds `round`..k-1 of check's loop; `seen` are the indices read so far.
\* Indexing a BitVec panics on an index that is not below the length.
RECURSIVE check_loop(_, _, _, _, _)
check_loop(self, key, hasher, round, seen) ==
    IF round >= self.k
      THEN [self |-> self, status |-> "ok", ret |-> TRUE, accessed |-> seen]
      ELSE The({
             IF r.status # "ok"
               THEN [self |-> self, status |-> r.status, ret |-> FALSE,
                     accessed |-> seen]
             ELSE IF r.index >= BitVec_len(self.inner)
               THEN [self |-> self, status |-> "index_out_of_bounds",
                     ret |-> FALSE, accessed |-> Append(seen, r.index)]
             ELSE IF self.inner[r.index]
               THEN check_loop(self, key, r.hasher, round + 1,
                               Append(seen, r.index))
             ELSE [self |-> self, status |-> "ok", ret |-> FALSE,
                   accessed |-> Append(seen, r.index)]
             : r \in {hash_index(self, key, hasher)} })

RECURSIVE check_marks_loop(_, _, _, _, _)
check_marks_loop(self, key, hasher, round, seen) ==
    IF round >= self.k
      THEN [self |-> self, status |-> "ok", ret |-> TRUE, accessed |-> seen]
      ELSE The({
             IF r.status # "ok"
               THEN [self |-> self, status |-> r.status, ret |-> FALSE,
                     accessed |-> seen]
             ELSE IF r.index >= BitVec_len(self.inner)
               THEN [self |-> self, status |-> "index_out_of_bounds",
                     ret |-> FALSE, accessed |-> Append(seen, r.index)]
             ELSE IF self.inner[r.index]
               THEN check_marks_loop(self, key, r.hasher, round + 1,
                                     Append(seen, r.index))
             ELSE [self |-> [self EXCEPT !.inner[r.index] = TRUE],
                   status |-> "ok", ret |-> FALSE,
                   accessed |-> Append(seen, r.index)]
             : r \in {hash_index(self, key, hasher)} })

\* check that sets the cleared bit it stops at (a test-and-set)
check_marks(self, key) == check_marks_loop(self, key, FxHasher_default, 0, <<>>)

RECURSIVE check_any_loop(_, _, _, _, _)
check_any_loop(self, key, hasher, round, seen) ==
    IF round >= self.k
      THEN [self |-> self, status |-> "ok", ret |-> (self.k = 0), accessed |-> seen]
      ELSE The({
             IF r.status # "ok"
               THEN [self |-> self, status |-> r.status, ret |-> FALSE,
                     accessed |-> seen]
             ELSE IF r.index >= BitVec_len(self.inner)
               THEN [self |-> self, status |-> "index_out_of_bounds",
                     ret |-> FALSE, accessed |-> Append(seen, r.index)]
             ELSE IF self.inner[r.index]
               THEN [self |-> self, status |-> "ok", ret |-> TRUE,
                     accessed |-> Append(seen, r.index)]
             ELSE check_any_loop(self, key, r.hasher, round + 1,
                                 Append(seen, r.index))
             : r \in {hash_index(self, key, hasher)} })

\* check with the branches swapped: true at the first set bit
check_any(self, key) == check_any_loop(self, key, FxHasher_default, 0, <<>>)

\* BloomFilter::check
check(self, key) == check_loop(self, key, FxHasher_default, 0, <<>>)

RECURSIVE indices_from(_, _, _, _)
indices_from(self, key, hasher, round) ==
    IF round >= self.k \/ self.n_bits = 0 THEN <<>>
    ELSE The({ <<r.index>> \o indices_from(self, key, r.hasher, round + 1)
               : r \in {hash_index(self, key, hasher)} })

\* the k index positions derived for key: k successive hash_index calls on
\* one fresh hasher
indices(self, key) == indices_from(self, key, FxHasher_default, 0)

(***************************************************************************)
(* State.                                                                  *)
(*   bloom     the filter                                                  *)
(*   twin      a second filter built with the same n_bits and k            *)
(*   status    "ok", or the panic that ended the program                   *)
(*   built     the arguments new() was called with                         *)
(*   op, arg   the last call and its key                                   *)
(*   ret       what the last check returned                                *)
(*   accessed  the bit indices the last call wrote or read, in order       *)
(*   inserted  the keys whose insert has returned                          *)
(*   again     the last call inserted a key that had been inserted before  *)
(***************************************************************************)
VARIABLES bloom, twin, status, built, op, arg, ret, accessed, inserted, again

vars == <<bloom, twin, status, built, op, arg, ret, accessed, inserted, again>>

Init ==
    \E n \in 0..MaxNBits, kk \in 0..MaxK :
        /\ bloom = new(n, kk)
        /\ twin = new(n, kk)
        /\ built = [n_bits |-> n, k |-> kk]
        /\ status = "ok"
        /\ op = "new"
        /\ arg = <<>>
        /\ ret = FALSE
        /\ accessed = <<>>
        /\ inserted = {}
        /\ again = FALSE

\* bloom.insert(key)
Insert(key) ==
    /\ status = "ok"
    /\ LET r == insert(bloom, key)
       IN  /\ bloom' = r.self
           /\ status' = r.status
           /\ accessed' = r.accessed
           /\ inserted' = IF r.status = "ok" THEN inserted \cup {key} ELSE inserted
    /\ op' = "insert"
    /\ arg' = key
    /\ ret' = FALSE
    /\ again' = (key \in inserted)
    /\ UNCHANGED <<twin, built>>

\* bloom.check(key)
Check(key) ==
    /\ status = "ok"
    /\ LET r == check(bloom, key)
       IN  /\ bloom' = r.self
           /\ status' = r.status
           /\ accessed' = r.accessed
           /\ ret' = r.ret
    /\ op' = "check"
    /\ arg' = key
    /\ again' = FALSE
    /\ UNCHANGED <<twin, built, inserted>>

Next == \E key \in Keys : Insert(key) \/ Check(key)

Spec == Init /\ [][Next]_vars

(***************************************************************************)
(* Two filters given the same sequence of inserted keys; each is queried   *)
(* on its own.                                                             *)
(***************************************************************************)
\* bloom.insert(key); twin.insert(key)
InsertBoth(key) ==
    /\ status = "ok"
    /\ LET r == insert(bloom, key)
           t == insert(twin, key)
       IN  /\ bloom' = r.self
           /\ twin' = t.self
           /\ status' = IF r.status # "ok" THEN r.status ELSE t.status
           /\ accessed' = r.accessed
           /\ inserted' = IF r.status = "ok" /\ t.status = "ok"
                            THEN inserted \cup {key} ELSE inserted
    /\ op' = "insert"
    /\ arg' = key
    /\ ret' = FALSE
    /\ again' = (key \in inserted)
    /\ UNCHANGED built

\* twin.check(key)
CheckTwin(key) ==
    /\ status = "ok"
    /\ LET t == check(twin, key)
       IN  /\ twin' = t.self
           /\ status' = t.status
           /\ accessed' = t.accessed
           /\ ret' = t.ret
    /\ op' = "check_twin"
    /\ arg' = key
    /\ again' = FALSE
    /\ UNCHANGED <<bloom, built, inserted>>

NextTwin == \E key \in Keys : InsertBoth(key) \/ Check(key) \/ CheckTwin(key)

SpecTwin == Init /\ [][NextTwin]_vars
(***************************************************************************)
(* Helpers of the properties.                                              *)
(***************************************************************************)
\* the set of index positions derived for key
IndexSet(self, key) == {indices(self, key)[i] : i \in DOMAIN indices(self, key)}

\* the indices of the bits that are set
SetBits(self) == {i \in DOMAIN self.inner : self.inner[i]}

(***************************************************************************)
(* The repository's own tests, as a check of the hasher model              *)
(* (test::insertion and test::index).                                      *)
(***************************************************************************)
test_insertion ==
    LET b0 == new(10, 2)
        b1 == insert(b0, Hello).self
        b2 == insert(b1, World).self
    IN  /\ SetBits(b1) = {0, 6}
        /\ SetBits(b2) = {0, 2, 4, 6}

test_index == hash_index(new(10, 2), Hello, FxHasher_default).index = 0

(***************************************************************************)
(* Properties.                                                             *)
(***************************************************************************)

\* C1: no false negatives. In a filter built with n_bits > 0 and k > 0,
\* every key whose insert has returned makes check return true, right after
\* its insertion and after any later insertions, and a check call that was
\* made on such a key returned true.
C1_NoFalseNegatives ==
    (built.n_bits > 0 /\ built.k > 0) =>
        /\ status = "ok"
        /\ \A x \in inserted :
              check(bloom, x).status = "ok" /\ check(bloom, x).ret
        /\ (op = "check" /\ arg \in inserted) => ret

\* C1 witness: a check of an inserted key returned true in a filter holding
\* at least two keys, while some other key is still reported absent.
C1_Witness ==
    /\ built.n_bits > 0 /\ built.k > 0
    /\ op = "check" /\ arg \in inserted /\ ret
    /\ Cardinality(inserted) >= 2
    /\ \E y \in Keys : ~check(bloom, y).ret

\* C2 (as claimed): new(n_bits, k) with n_bits = 0 or k = 0 is rejected with
\* a configuration error, so no filter with such a configuration exists.
C2_ZeroConfigRejected ==
    (built.n_bits = 0 \/ built.k = 0) => status = "config_error"

\* C3: monotonicity. No step resets a set bit, and no step turns the result
\* of check for any key from true to false.
C3_Monotone ==
    [][ /\ \A i \in DOMAIN bloom.inner :
              bloom.inner[i] => (i \in DOMAIN bloom'.inner /\ bloom'.inner[i])
        /\ \A key \in Keys : check(bloom, key).ret => check(bloom', key).ret
      ]_vars

\* C3 witness: an insert has run on a filter that keeps a set bit which is
\* not one of the inserted key's positions, and some bit is still cleared.
C3_Witness ==
    /\ op = "insert" /\ status = "ok"
    /\ SetBits(bloom) \ IndexSet(bloom, arg) # {}
    /\ SetBits(bloom) # DOMAIN bloom.inner

\* C4: idempotence. Inserting a key that has been inserted before leaves the
\* bit array as it was.
C4_Idempotent ==
    [][ (op' = "insert" /\ arg' \in inserted) =>
            (status' = "ok" /\ bloom'.inner = bloom.inner) ]_vars

\* C4 witness: a key was inserted a second time, with k > 0 and another key
\* inserted too.
C4_Witness ==
    /\ op = "insert" /\ again /\ status = "ok"
    /\ built.k > 0 /\ built.n_bits > 1
    /\ Cardinality(inserted) >= 2

\* C5: determinism. Two filters built with the same n_bits and k and given
\* the same inserts have identical bit arrays after every step, whatever
\* checks were made on either, and a check made on one returns what the other
\* returns for that key.
C5_Deterministic ==
    /\ bloom = twin
    /\ op = "check" => ret = check(twin, arg).ret
    /\ op = "check_twin" => ret = check(bloom, arg).ret
    /\ \A key \in Keys : check(bloom, key).ret = check(twin, key).ret

\* C5 witness: the twin was queried and answered true, after at least two
\* inserts that left some bit cleared.
C5_Witness ==
    /\ op = "check_twin" /\ ret /\ status = "ok"
    /\ built.k > 0
    /\ Cardinality(inserted) >= 2
    /\ SetBits(bloom) # DOMAIN bloom.inner

C7_InBounds ==
    built.n_bits > 0 =>
        /\ status = "ok"
        /\ DOMAIN bloom.inner = 0..(bloom.n_bits - 1)
        /\ BitVec_len(bloom.inner) = bloom.n_bits
        /\ bloom.n_bits = built.n_bits
        /\ bloom.k = built.k
        /\ \A j \in DOMAIN accessed : 0 <= accessed[j] /\ accessed[j] < bloom.n_bits

\* C7 witness: an insert wrote the last bit of a filter of more than one bit.
C7_Witness ==
    /\ op = "insert" /\ status = "ok"
    /\ built.n_bits > 1
    /\ \E j \in DOMAIN accessed : accessed[j] = bloom.n_bits - 1

\* C8: check is read-only. A check call, whatever it returns, leaves the bit
\* array, n_bits and k as they were.
C8_CheckReadOnly ==
    [][ op' = "check" =>
            /\ bloom'.inner = bloom.inner
            /\ bloom'.n_bits = bloom.n_bits
            /\ bloom'.k = bloom.k ]_vars

\* C8 witness: a check that read a bit returned false on a filter that
\* holds a key.
C8_Witness ==
    /\ op = "check" /\ status = "ok" /\ ~ret
    /\ accessed # <<>>
    /\ inserted # {}

\* C9: effect of insert. After insert(key) returns, every derived position
\* of key is set, at most k bits went from cleared to set, and every bit
\* that is not a derived position of key is as it was.
C9_InsertEffect ==
    [][ (op' = "insert" /\ status' = "ok") =>
            LET idx == IndexSet(bloom, arg')
            IN  /\ DOMAIN bloom'.inner = DOMAIN bloom.inner
                /\ \A i \in idx : bloom'.inner[i]
                /\ Cardinality(SetBits(bloom') \ SetBits(bloom)) <= bloom.k
                /\ \A i \in DOMAIN bloom.inner \ idx :
                      bloom'.inner[i] = bloom.inner[i] ]_vars

\* C9 witness: an insert whose two derived positions collide has run on a
\* filter that holds set bits outside the key's positions.
C9_Witness ==
    /\ op = "insert" /\ status = "ok"
    /\ built.k = 2 /\ built.n_bits > 1
    /\ Cardinality(IndexSet(bloom, arg)) = 1
    /\ SetBits(bloom) \ IndexSet(bloom, arg) # {}

\* C10: inserts commute. From every reachable state the two orders of
\* inserting two distinct keys give the same filter, and the set bits are
\* exactly the union of the derived positions of the keys inserted so far
\* (whatever their order and however often each was inserted).
C10_InsertsCommute ==
    status = "ok" =>
        /\ \A i \in DOMAIN KeyList, j \in DOMAIN KeyList :
              i < j =>
                  LET a  == KeyList[i]
                      b  == KeyList[j]
                      ab == insert(insert(bloom, a).self, b)
                      ba == insert(insert(bloom, b).self, a)
                  IN  ab.self = ba.self /\ ab.status = ba.status
        /\ (built.n_bits > 0 \/ built.k = 0) =>
              SetBits(bloom) = UNION {IndexSet(bloom, key) : key \in inserted}

\* C10 witness: three keys with overlapping positions are inserted and
\* some bit is still cleared.
C10_Witness ==
    /\ status = "ok" /\ built.k > 0
    /\ Cardinality(inserted) >= 3
    /\ \E a \in inserted, b \in inserted :
          a # b /\ IndexSet(bloom, a) \cap IndexSet(bloom, b) # {}
    /\ SetBits(bloom) # DOMAIN bloom.inner

=============================================================================
